---- MODULE Spec2Model ----
(***************************************************************************)
(* Model of the HTTP task scheduler: the durable task/result store, the    *)
(* scheduler (one-off timers, cron registry, recovery sweep, executeTask), *)
(* the retrying executor, and the control operations that reach the store  *)
(* either through TaskHandler (as wired in main) or through TaskService.   *)
(*                                                                         *)
(* Time is an abstract clock; one unit stands for one cron minute.  The    *)
(* sweep ticker and the timers may be late but are never early.  API       *)
(* requests are served one at a time (variable req); they interleave       *)
(* freely with timers, cron ticks, the sweep and in-flight firings.        *)
(* Store writes succeed and the task logger is open unless a narrower      *)
(* specification says otherwise.  Spec is a scheduler                      *)
(* started on an empty store and never stopped; SpecStart is a process     *)
(* that starts on the store a previous run left behind; SpecStop adds      *)
(* Scheduler.Stop.  SpecFaulty and SpecService add store writes that fail   *)
(* (of a firing, of TaskService).  SpecExecute and SpecRepo look at single  *)
(* calls of HTTPExecutor.Execute and of TaskRepository, SpecPage at the     *)
(* paging of the list endpoints.  SpecMetrics, SpecLock, SpecClient and    *)
(* SpecRange look at concurrency one concern at a time: the metrics        *)
(* mutex, the scheduler's map lock, the executor's client field and the    *)
(* loop variable of the range loops.  SpecRearm starts with a timer        *)
(* pending and lets updates race with its firing; SpecLogger follows one   *)
(* dispatch after main has tried to open the task log.                     *)
(***************************************************************************)
EXTENDS Integers, Sequences, FiniteSets, TLC

\* ---------------------------------------------------------------- bounds
NumTasks   == 1   \* task identities that can be created
MaxTime    == 1   \* the clock runs 0..MaxTime
MaxFirings == 2   \* executeTask invocations started in one behaviour
MaxOps     == 3   \* control API requests started in one behaviour
MaxExtra   == 1   \* response bodies have up to BodyCap + MaxExtra bytes
MaxOver    == 2   \* requested page sizes go up to maxLimit + MaxOver
MaxPage    == 2   \* requested pages go up to MaxPage
NumRecorders == 2 \* firings that record their execution concurrently
NumCallers == 2   \* threads that call into the scheduler concurrently
NumLoaded == 2    \* rows one GetScheduledTasks call returns to a range loop

\* ------------------------------------------------------ program constants
maxRetries == 2   \* NewRetryExecutor(httpExecutor, 2, 5*time.Second)
BodyCap    == 10000   \* if len(bodyStr) > 10000
defaultLimit == 10    \* c.DefaultQuery("limit", "10"); limit = 10
maxLimit   == 100     \* if limit < 1 || limit > 100

TaskIds == 1..NumTasks
Times   == 0..MaxTime
NoTime  == -1     \* a nil *time.Time
NoExpr  == ""     \* a nil *string (cron_expr)
NoTask  == [id |-> 0]

TriggerTypeOneOff == "one-off"
TriggerTypeCron   == "cron"
TaskStatusScheduled == "scheduled"
TaskStatusCancelled == "cancelled"
TaskStatusCompleted == "completed"

\* Cron expressions a create/update request may carry: a five-field
\* expression and a descriptor; both stand for "every minute".
CronExprs == {"* * * * *", "@every 1m"}

\* cron.ParseStandard: five fields or a descriptor.
ParseStandard(expr) == expr \in {"* * * * *", "@every 1m"}

\* The parser of cron.New(cron.WithSeconds()): six fields or a descriptor;
\* a five-field expression is rejected ("expected exactly 6 fields").
ParsesWithSeconds(expr) == expr \in {"@every 1m"}

\* cron.NewParser(Minute|Hour|Dom|Month|Dow): five fields, no descriptors.
ParsesFiveField(expr) == expr \in {"* * * * *"}

\* schedule.Next(t): the next matching instant strictly after t.
CronNext(expr, t) == t + 1

VARIABLES
    call,         \* an executor or repository call looked at on its own
    run,          \* Scheduler.Start / Stop: where the scheduler is in its life
    wiring,       \* "handler": API -> TaskHandler -> repository (main);
                  \* "service": API -> TaskService -> repository + scheduler
    now,          \* the clock
    tasks,        \* the tasks table: id -> row, NoTask when absent
    results,      \* the task_results table, in insertion order
    oneOffTasks,  \* Scheduler.oneOffTasks: id -> timer handle, 0 when absent
    timers,       \* pending (armed, not fired, not stopped) timers
    cronEntries,  \* entries of Scheduler.cron, in registration order
    firings,      \* executeTask invocations, in dispatch order
    sweep,        \* the periodicTaskChecker goroutine
    req,          \* the control API request being served
    ops,          \* control API requests started so far
    cancelledArmed \* cancels by TaskService.DeleteTask that stopped a timer

vars == <<call, run, wiring, now, tasks, results, oneOffTasks, timers, cronEntries, firings, sweep, req, ops, cancelledArmed>>

Idle == [op |-> "idle"]

\* No executor call is being looked at.
NoCall == [pc |-> "idle"]

\* Start has returned, Stop has not been called; main serves the API.
Running == [pc |-> "running", list |-> <<>>]

\* periodicTaskChecker waiting for its ticker.
SweepIdle == [pc |-> "wait", list |-> <<>>, now |-> 0]

Init ==
    /\ call = NoCall
    /\ run = Running
    /\ wiring \in {"handler", "service"}
    /\ now = 0
    /\ tasks = [t \in TaskIds |-> NoTask]
    /\ results = <<>>
    /\ oneOffTasks = [t \in TaskIds |-> 0]
    /\ timers = {}
    /\ cronEntries = <<>>
    /\ firings = <<>>
    /\ sweep = SweepIdle
    /\ req = Idle
    /\ ops = 0
    /\ cancelledArmed = {}

\* ------------------------------------------------------------ store
\* The row a successful create request stores (TaskHandler.CreateTask):
\* status scheduled; one-off: next_run = trigger_time = datetime; cron:
\* next_run from calculateNextCronRun when the five-field parser accepts it.
NewTask(id, type, datetime, cron) ==
    [id          |-> id,
     triggerType |-> type,
     triggerTime |-> IF type = TriggerTypeOneOff THEN datetime ELSE NoTime,
     cronExpr    |-> IF type = TriggerTypeCron THEN cron ELSE NoExpr,
     status      |-> TaskStatusScheduled,
     nextRun     |-> IF type = TriggerTypeOneOff THEN datetime
                     ELSE IF ParsesFiveField(cron) THEN CronNext(cron, now)
                     ELSE NoTime]

\* What validateTrigger accepts as a trigger: a one-off datetime that is not
\* before now, or a cron expression cron.ParseStandard accepts.
ValidTriggers ==
    {[type |-> TriggerTypeOneOff, datetime |-> d, cron |-> NoExpr] :
        d \in {d \in Times : ~(d < now)}}
    \cup
    {[type |-> TriggerTypeCron, datetime |-> NoTime, cron |-> c] :
        c \in {c \in CronExprs : ParseStandard(c)}}

\* The request without a trigger (only name or action change).
NoTrigger == [type |-> "", datetime |-> NoTime, cron |-> NoExpr]

\* TaskHandler.UpdateTask applied to the row it read: a trigger in the
\* request replaces type, trigger_time, cron_expr and next_run (next_run of a
\* cron task only when calculateNextCronRun succeeds).
ApplyUpdate(task, upd) ==
    IF upd = NoTrigger THEN task
    ELSE IF upd.type = TriggerTypeOneOff
         THEN [task EXCEPT !.triggerType = upd.type,
                           !.triggerTime = upd.datetime,
                           !.cronExpr = NoExpr,
                           !.nextRun = upd.datetime]
         ELSE [task EXCEPT !.triggerType = upd.type,
                           !.cronExpr = upd.cron,
                           !.triggerTime = NoTime,
                           !.nextRun = IF ParsesFiveField(upd.cron)
                                       THEN CronNext(upd.cron, now)
                                       ELSE task.nextRun]

\* The update requests TaskHandler.UpdateTask accepts.
Updates == {NoTrigger} \cup ValidTriggers

Exists(id) == tasks[id] # NoTask

FreeIds == {id \in TaskIds : ~Exists(id)}

\* uuid.New(): a fresh identity (the smallest unused one).
NewId == CHOOSE id \in FreeIds : \A o \in FreeIds : id <= o

\* TaskRepository.Update: db.Save writes the whole record.
RepoUpdate(task) == [tasks EXCEPT ![task.id] = task]

\* A Delete that removes the row.
RepoDeleteRemoves(id) == [tasks EXCEPT ![id] = NoTask]

\* TaskRepository.Delete: UPDATE tasks SET status = 'cancelled' WHERE id = ?
RepoDelete(id) ==
    IF Exists(id)
    THEN [tasks EXCEPT ![id].status = TaskStatusCancelled]
    ELSE tasks

\* TaskRepository.UpdateNextRun
RepoUpdateNextRun(id, nextRun) ==
    IF Exists(id) THEN [tasks EXCEPT ![id].nextRun = nextRun] ELSE tasks

\* The rows TaskRepository.GetScheduledTasks selects.
IsDue(task) ==
    /\ task.status = TaskStatusScheduled
    /\ (task.nextRun = NoTime \/ task.nextRun <= now)

RECURSIVE RowsFrom(_)
RowsFrom(id) ==
    IF id > NumTasks THEN <<>>
    ELSE IF Exists(id) /\ IsDue(tasks[id])
         THEN <<tasks[id]>> \o RowsFrom(id + 1)
         ELSE RowsFrom(id + 1)

GetScheduledTasks == RowsFrom(1)

\* ------------------------------------------------------------ executor
\* A TaskResult: statusCode is <<>> when absent (a nil *int); attempt tells
\* which attempt of the firing produced it.
NoResult == [success |-> FALSE, statusCode |-> <<>>, attempt |-> 0]

\* What the endpoint does on one attempt: a transport failure (status 0
\* stands for "no response") or an HTTP response with a status.
Responses == {0, 200, 500}

\* HTTPExecutor.Execute: success iff a response came back with a 2xx status.
HTTPExecute(resp, n) ==
    IF resp = 0
    THEN [success |-> FALSE, statusCode |-> <<>>, attempt |-> n]
    ELSE [success |-> (resp >= 200 /\ resp < 300), statusCode |-> <<resp>>,
          attempt |-> n]

\* A loop that gives up one attempt early (attempt < maxRetries).
RetryAgainOneShort(attempts, result) ==
    /\ ~result.success
    /\ attempts < maxRetries

\* RetryExecutor.Execute, after attempt number `attempts` (1-based) returned
\* `result`: does the loop go round again?
RetryAgain(attempts, result) ==
    /\ ~result.success
    /\ attempts <= maxRetries

\* A decorator that keeps the first attempt's result instead of the last.
FirstResult(lastResult, result) ==
    IF lastResult.attempt = 0 THEN result ELSE lastResult

\* RetryExecutor.Execute: lastResult = result, on every attempt.
LastResult(lastResult, result) == result

\* ------------------------------------------------------------ scheduler
CanSpawn == Len(firings) < MaxFirings

NewFiring(task, origin) ==
    [task |-> task, pc |-> "start", attempts |-> 0, result |-> NoResult,
     startTime |-> 0, origin |-> origin]

\* timer.Stop() on the handle the map holds for id.
StopTimer(id) == {k \in timers : k.id # oneOffTasks[id]}

\* time.AfterFunc returns a fresh handle: one that differs from every handle
\* still held by the map or by a pending timer.
HandlesInUse == {k.id : k \in timers} \cup {oneOffTasks[t] : t \in TaskIds}

NewTimer == CHOOSE h \in 1..(Cardinality(HandlesInUse) + 1) :
                /\ h \notin HandlesInUse
                /\ \A o \in 1..(Cardinality(HandlesInUse) + 1) :
                      o \notin HandlesInUse => h <= o

\* Does scheduleOneOffTask dispatch at once?
DispatchNow(task) == task.triggerTime - now <= 0

\* Scheduler.scheduleOneOffTask (under s.mu)
scheduleOneOffTask(task) ==
    IF task.triggerTime = NoTime
    THEN UNCHANGED <<oneOffTasks, timers, firings, cronEntries>>
    ELSE IF DispatchNow(task)
    THEN /\ CanSpawn
         /\ timers' = StopTimer(task.id)
         /\ firings' = Append(firings, NewFiring(task, "immediate"))
         /\ UNCHANGED <<oneOffTasks, cronEntries>>
    ELSE /\ timers' = StopTimer(task.id) \cup
                {[id |-> NewTimer, task |-> task,
                  deadline |-> task.triggerTime]}
         /\ oneOffTasks' = [oneOffTasks EXCEPT ![task.id] = NewTimer]
         /\ UNCHANGED <<firings, cronEntries>>

\* Scheduler.scheduleCronTask (under s.mu): s.cron.AddFunc fails unless the
\* scheduler's parser accepts the expression.
scheduleCronTask(task) ==
    IF task.cronExpr # NoExpr /\ ParsesWithSeconds(task.cronExpr)
    THEN /\ cronEntries' = Append(cronEntries,
                [task |-> task, next |-> CronNext(task.cronExpr, now),
                 prev |-> NoTime])
         /\ UNCHANGED <<oneOffTasks, timers, firings>>
    ELSE UNCHANGED <<oneOffTasks, timers, firings, cronEntries>>

\* Scheduler.ScheduleTask
ScheduleTask(task) ==
    IF task.triggerType = TriggerTypeOneOff
    THEN scheduleOneOffTask(task)
    ELSE scheduleCronTask(task)

\* Scheduler.UnscheduleTask: stops and drops the one-off handle; the cron
\* registry is left alone.
UnscheduleTask(id) ==
    /\ timers' = StopTimer(id)
    /\ oneOffTasks' = [oneOffTasks EXCEPT ![id] = 0]
    /\ UNCHANGED <<firings, cronEntries>>

\* The clock advances.
Tick ==
    /\ now < MaxTime
    /\ now' = now + 1
    /\ UNCHANGED <<call, run, wiring, tasks, results, oneOffTasks, timers, cronEntries, firings, sweep, req, ops,
                   cancelledArmed>>

\* A pending timer reaches its deadline: time.AfterFunc runs the callback,
\* which calls executeTask with the task it was armed with.
TimerFires ==
    \E k \in timers :
        /\ k.deadline <= now
        /\ CanSpawn
        /\ timers' = timers \ {k}
        /\ firings' = Append(firings, NewFiring(k.task, "timer"))
        /\ UNCHANGED <<call, run, wiring, now, tasks, results, oneOffTasks, cronEntries, sweep, req, ops, cancelledArmed>>

\* A callback that skips only tasks that are completed.
StillActiveUnlessCompleted(cur) == cur.status # TaskStatusCompleted

\* The cron callback's check of the row it re-read.
StillActive(cur) == cur.status = TaskStatusScheduled

\* s.cron runs jobs from cron.Start() (first statement of Start) until
\* cron.Stop() (second statement of Stop).
CronRunning == run.pc \in {"load", "running", "cancelled"}

\* The cron ticker activates an entry: the callback re-reads the task and
\* dispatches it only when its status is scheduled.
CronTick ==
    \E i \in 1..Len(cronEntries) :
        LET e   == cronEntries[i]
            cur == tasks[e.task.id]
        IN  /\ CronRunning
            /\ e.next <= now
            /\ cronEntries' = [cronEntries EXCEPT
                                 ![i].next = CronNext(e.task.cronExpr, now),
                                 ![i].prev = now]
            /\ IF StillActive(cur)
               THEN /\ CanSpawn
                    /\ firings' = Append(firings, NewFiring(cur, "cron"))
               ELSE UNCHANGED firings
            /\ UNCHANGED <<call, run, wiring, now, tasks, results, oneOffTasks, timers,
                           sweep, req, ops, cancelledArmed>>

\* A goroutine that has ended: its locals are gone, what stays is the
\* record that the dispatch happened, for which task and of which kind.
Finished(f) ==
    [task |-> [id |-> f.task.id, triggerType |-> f.task.triggerType,
               triggerTime |-> NoTime, cronExpr |-> NoExpr,
               status |-> "", nextRun |-> NoTime],
     pc |-> "done", attempts |-> 0, result |-> NoResult, startTime |-> 0,
     origin |-> f.origin]

\* The firing's next state when it moves to program point pc; once the
\* result is persisted executeTask no longer reads it.
Goto(f, pc) ==
    IF pc = "done" THEN Finished(f)
    ELSE [f EXCEPT !.pc = pc, !.attempts = 0, !.result = NoResult]

\* What follows executeTask in the caller: the timer callback drops the map
\* entry, the cron callback rewrites next_run; a bare goroutine just ends.
AfterPc(origin) == IF origin \in {"timer", "cron"} THEN "after" ELSE "done"

\* executeTask begins: startTime := time.Now(), then the executor is called.
FiringStart ==
    \E i \in 1..Len(firings) :
        /\ firings[i].pc = "start"
        /\ firings' = [firings EXCEPT ![i].pc = "exec", ![i].startTime = now]
        /\ UNCHANGED <<call, run, wiring, now, tasks, results, oneOffTasks, timers,
                       cronEntries, sweep, req, ops,
                       cancelledArmed>>

\* One iteration of the RetryExecutor.Execute loop: one HTTP attempt.
Attempt ==
    \E i \in 1..Len(firings), resp \in Responses :
        LET f      == firings[i]
            result == HTTPExecute(resp, f.attempts + 1)
        IN  /\ f.pc = "exec"
            /\ firings' = [firings EXCEPT
                  ![i].attempts = f.attempts + 1,
                  ![i].result = LastResult(f.result, result),
                  ![i].pc = IF RetryAgain(f.attempts + 1, result)
                            THEN "exec" ELSE "save"]
            /\ UNCHANGED <<call, run, wiring, now, tasks, results, oneOffTasks, timers,
                           cronEntries, sweep, req, ops,
                           cancelledArmed>>

\* The row executeTask hands to resultRepo.Create.
ResultRow(i) ==
    [taskId     |-> firings[i].task.id,
     runAt      |-> firings[i].startTime,
     success    |-> firings[i].result.success,
     statusCode |-> firings[i].result.statusCode,
     firing     |-> i,
     attempt    |-> firings[i].result.attempt]

\* An executeTask that marks every task completed, whatever its trigger.
MarksCompletedAlways(task) == task.triggerType # ""

\* Does executeTask go on to mark the task completed?
MarksCompleted(task) == task.triggerType = TriggerTypeOneOff

\* executeTask after the executor returned: run_at and task_id are set and
\* the result is persisted.
SaveResult ==
    \E i \in 1..Len(firings) :
        /\ firings[i].pc = "save"
        /\ results' = Append(results, ResultRow(i))
        /\ firings' = [firings EXCEPT
              ![i] = Goto(firings[i],
                          IF MarksCompleted(firings[i].task)
                          THEN "status" ELSE AfterPc(firings[i].origin))]
        /\ UNCHANGED <<call, run, wiring, now, tasks, oneOffTasks, timers, cronEntries, sweep, req, ops, cancelledArmed>>

\* The record executeTask saves for a one-off task.
CompletedTask(task) == [task EXCEPT !.status = TaskStatusCompleted]

\* executeTask, one-off: task.Status = completed; taskRepo.Update(task).
UpdateStatus ==
    \E i \in 1..Len(firings) :
        /\ firings[i].pc = "status"
        /\ tasks' = RepoUpdate(CompletedTask(firings[i].task))
        /\ firings' = [firings EXCEPT
              ![i] = Goto([firings[i] EXCEPT
                             !.task = CompletedTask(firings[i].task)],
                          AfterPc(firings[i].origin))]
        /\ UNCHANGED <<call, run, wiring, now, results, oneOffTasks, timers, cronEntries, sweep, req, ops, cancelledArmed>>

\* The rest of the callback after executeTask returned.
AfterFiring ==
    \E i \in 1..Len(firings) :
        LET f == firings[i]
        IN  /\ f.pc = "after"
            /\ firings' = [firings EXCEPT ![i] = Goto(f, "done")]
            /\ IF f.origin = "timer"
               THEN /\ oneOffTasks' = [oneOffTasks EXCEPT ![f.task.id] = 0]
                    /\ UNCHANGED tasks
               ELSE /\ tasks' = IF ParsesFiveField(f.task.cronExpr)
                                THEN RepoUpdateNextRun(f.task.id,
                                        CronNext(f.task.cronExpr, now))
                                ELSE tasks
                    /\ UNCHANGED oneOffTasks
            /\ UNCHANGED <<call, run, wiring, now, results, timers, cronEntries, sweep, req, ops,
                           cancelledArmed>>

\* The sweep ticker fires: checkMissedTasks reads the due rows and the clock.
SweepTick ==
    /\ sweep.pc = "wait"
    /\ sweep' = IF GetScheduledTasks = <<>> THEN SweepIdle
                 ELSE [pc |-> "loop", list |-> GetScheduledTasks, now |-> now]
    /\ UNCHANGED <<call, run, wiring, now, tasks, results, oneOffTasks, timers, cronEntries, firings, req, ops, cancelledArmed>>

\* A sweep with the comparison turned round (NextRun.After(now)).
MissedReversed(task, at) == task.nextRun # NoTime /\ task.nextRun > at

\* Is a row of the sweep's list treated as missed?
Missed(task, at) == task.nextRun # NoTime /\ task.nextRun < at

\* One iteration of the loop of checkMissedTasks.
SweepStep ==
    /\ sweep.pc = "loop"
    /\ LET task == Head(sweep.list)
           rest == Tail(sweep.list)
       IN  /\ sweep' = IF rest = <<>> THEN SweepIdle
                        ELSE [sweep EXCEPT !.list = rest]
           /\ IF Missed(task, sweep.now)
                 /\ task.triggerType = TriggerTypeOneOff
              THEN /\ CanSpawn
                   /\ firings' = Append(firings, NewFiring(task, "sweep"))
                   /\ UNCHANGED tasks
              ELSE IF Missed(task, sweep.now)
                      /\ task.triggerType = TriggerTypeCron
                      /\ ParsesFiveField(task.cronExpr)
              THEN /\ tasks' = RepoUpdateNextRun(task.id,
                                    CronNext(task.cronExpr, now))
                   /\ UNCHANGED firings
              ELSE UNCHANGED <<tasks, firings>>
    /\ UNCHANGED <<call, run, wiring, now, results, oneOffTasks, timers, cronEntries, req, ops, cancelledArmed>>

\* ---------------------------------------------------------- control API
\* The create requests that pass validateTrigger.
CreateRequests == ValidTriggers

\* main serves requests once Scheduler.Start has returned.
Serving == run.pc \notin {"new", "load"}

CanStart == Serving /\ req = Idle /\ ops < MaxOps

\* POST /tasks as wired in main: TaskHandler.CreateTask stores the row and
\* never tells the scheduler.
HandlerCreateTask ==
    /\ wiring = "handler"
    /\ CanStart
    /\ FreeIds # {}
    /\ \E r \in CreateRequests :
          tasks' = [tasks EXCEPT
                      ![NewId] = NewTask(NewId, r.type, r.datetime, r.cron)]
    /\ ops' = ops + 1
    /\ UNCHANGED <<call, run, wiring, now, results, oneOffTasks, timers, cronEntries, firings, sweep, req, cancelledArmed>>

\* TaskService.CreateTask, first half: taskRepo.Create.
ServiceCreateTask ==
    /\ wiring = "service"
    /\ CanStart
    /\ FreeIds # {}
    /\ \E r \in CreateRequests :
          LET task == NewTask(NewId, r.type, r.datetime, r.cron)
          IN  /\ tasks' = [tasks EXCEPT ![NewId] = task]
              /\ req' = [op |-> "create", pc |-> "schedule", task |-> task,
                         stopped |-> NoTime]
    /\ ops' = ops + 1
    /\ UNCHANGED <<call, run, wiring, now, results, oneOffTasks, timers, cronEntries, firings, sweep, cancelledArmed>>

\* TaskService.CreateTask / UpdateTask, last step: scheduler.ScheduleTask.
ReqSchedule ==
    /\ req # Idle
    /\ req.pc = "schedule"
    /\ ScheduleTask(req.task)
    /\ req' = Idle
    /\ UNCHANGED <<call, run, wiring, now, tasks, results, sweep, ops,
                   cancelledArmed>>

\* PUT /tasks/:id, first half: GetByID and the requested changes applied to
\* the copy that was read.
UpdateRead ==
    /\ CanStart
    /\ \E id \in TaskIds :
          /\ Exists(id)
          /\ \E upd \in Updates :
                req' = [op |-> "update",
                        pc |-> IF wiring = "handler" THEN "write"
                               ELSE "unschedule",
                        task |-> ApplyUpdate(tasks[id], upd),
                        stopped |-> NoTime]
    /\ ops' = ops + 1
    /\ UNCHANGED <<call, run, wiring, now, tasks, results, oneOffTasks, timers, cronEntries, firings, sweep, cancelledArmed>>

\* The deadline of the pending timer the map holds for id, if any.
PendingDeadline(id) ==
    IF \E k \in timers : k.id = oneOffTasks[id]
    THEN (CHOOSE k \in timers : k.id = oneOffTasks[id]).deadline
    ELSE NoTime

\* TaskService.UpdateTask, first step: scheduler.UnscheduleTask.
ReqUnschedule ==
    /\ req # Idle
    /\ req.pc = "unschedule"
    /\ UnscheduleTask(req.task.id)
    /\ req' = [req EXCEPT !.pc = "write"]
    /\ UNCHANGED <<call, run, wiring, now, tasks, results, sweep, ops,
                   cancelledArmed>>

\* Where an update goes after its store write: TaskService.UpdateTask
\* re-arms a task that is still scheduled; TaskHandler.UpdateTask is done.
AfterUpdate(r) ==
    IF wiring = "service" /\ r.task.status = TaskStatusScheduled
    THEN [r EXCEPT !.pc = "schedule"]
    ELSE Idle

\* The store write of an update (taskRepo.Update) or of a cancel
\* (taskRepo.Delete) issued by TaskService.
ReqWrite ==
    /\ req # Idle
    /\ req.pc = "write"
    /\ IF req.op = "update"
       THEN /\ tasks' = RepoUpdate(req.task)
            /\ req' = AfterUpdate(req)
            /\ UNCHANGED cancelledArmed
       ELSE /\ tasks' = RepoDelete(req.task.id)
            /\ req' = Idle
            /\ cancelledArmed' =
                  IF /\ req.stopped # NoTime
                     /\ now < req.stopped
                     /\ \A j \in 1..Len(results) :
                           results[j].taskId # req.task.id
                  THEN cancelledArmed \cup
                          {[id |-> req.task.id, dispatched |-> Len(firings)]}
                  ELSE cancelledArmed
    /\ UNCHANGED <<call, run, wiring, now, results, oneOffTasks, timers, cronEntries, firings, sweep, ops>>

\* DELETE /tasks/:id as wired in main: TaskHandler.DeleteTask checks that the
\* task exists and calls taskRepo.Delete; the scheduler is not told.
HandlerDeleteTask ==
    /\ wiring = "handler"
    /\ CanStart
    /\ \E id \in TaskIds :
          /\ Exists(id)
          /\ tasks' = RepoDelete(id)
    /\ ops' = ops + 1
    /\ UNCHANGED <<call, run, wiring, now, results, oneOffTasks, timers, cronEntries, firings, sweep, req, cancelledArmed>>

\* TaskService.DeleteTask, first half: scheduler.UnscheduleTask.
ServiceDeleteTask ==
    /\ wiring = "service"
    /\ CanStart
    /\ \E id \in TaskIds :
          /\ Exists(id)
          /\ UnscheduleTask(id)
          /\ req' = [op |-> "delete", pc |-> "write", task |-> tasks[id],
                     stopped |-> PendingDeadline(id)]
    /\ ops' = ops + 1
    /\ UNCHANGED <<call, run, wiring, now, tasks, results, sweep,
                   cancelledArmed>>

Next ==
    \/ Tick
    \/ HandlerCreateTask
    \/ ServiceCreateTask
    \/ ReqSchedule
    \/ UpdateRead
    \/ ReqUnschedule
    \/ ReqWrite
    \/ HandlerDeleteTask
    \/ ServiceDeleteTask
    \/ TimerFires
    \/ CronTick
    \/ FiringStart
    \/ Attempt
    \/ SaveResult
    \/ UpdateStatus
    \/ AfterFiring
    \/ SweepTick
    \/ SweepStep

Spec == Init /\ [][Next]_vars

\* ------------------------------------------------------------ start-up
\* The rows a previous run of the process can have left for an identity:
\* what create and update store, in any status.
StoredTasks(id) ==
    {[id |-> id, triggerType |-> TriggerTypeOneOff, triggerTime |-> d,
      cronExpr |-> NoExpr, status |-> st, nextRun |-> d] :
        d \in Times,
        st \in {TaskStatusScheduled, TaskStatusCancelled, TaskStatusCompleted}}
    \cup
    {[id |-> id, triggerType |-> TriggerTypeCron, triggerTime |-> NoTime,
      cronExpr |-> c, status |-> st, nextRun |-> n] :
        c \in CronExprs,
        st \in {TaskStatusScheduled, TaskStatusCancelled, TaskStatusCompleted},
        n \in Times \cup {NoTime}}

\* NewScheduler has returned, Start has not been called.
NotStarted == [pc |-> "new", list |-> <<>>]

\* The periodicTaskChecker goroutine does not exist yet.
SweepOff == [pc |-> "off", list |-> <<>>, now |-> 0]

\* A process coming up on the store of a previous run.
InitStart ==
    /\ call = NoCall
    /\ run = NotStarted
    /\ wiring \in {"handler", "service"}
    /\ now = 0
    /\ tasks \in [TaskIds -> {NoTask} \cup UNION {StoredTasks(t) : t \in TaskIds}]
    /\ \A t \in TaskIds : tasks[t] # NoTask => tasks[t].id = t
    /\ \A t \in TaskIds :
          (tasks[t] # NoTask /\ tasks[t].triggerType = TriggerTypeCron) =>
              (tasks[t].nextRun = NoTime <=> ~ParsesFiveField(tasks[t].cronExpr))
    /\ results = <<>>
    /\ oneOffTasks = [t \in TaskIds |-> 0]
    /\ timers = {}
    /\ cronEntries = <<>>
    /\ firings = <<>>
    /\ sweep = SweepOff
    /\ req = Idle
    /\ ops = 0
    /\ cancelledArmed = {}

\* Scheduler.Start: s.cron.Start(), then loadExistingTasks reads the rows
\* GetScheduledTasks selects.
StartBegin ==
    /\ run.pc = "new"
    /\ run' = [pc |-> "load", list |-> GetScheduledTasks]
    /\ UNCHANGED <<call, wiring, now, tasks, results, oneOffTasks, timers,
                   cronEntries, firings, sweep, req, ops, cancelledArmed>>

\* One iteration of the loop of loadExistingTasks: ScheduleTask(&task).
LoadStep ==
    /\ run.pc = "load"
    /\ run.list # <<>>
    /\ ScheduleTask(Head(run.list))
    /\ run' = [run EXCEPT !.list = Tail(run.list)]
    /\ UNCHANGED <<call, wiring, now, tasks, results, sweep, req, ops,
                   cancelledArmed>>

\* Scheduler.Start after the loop: go s.periodicTaskChecker(); return.
StartEnd ==
    /\ run.pc = "load"
    /\ run.list = <<>>
    /\ run' = Running
    /\ sweep' = SweepIdle
    /\ UNCHANGED <<call, wiring, now, tasks, results, oneOffTasks, timers,
                   cronEntries, firings, req, ops, cancelledArmed>>

NextStart ==
    \/ Tick
    \/ StartBegin
    \/ LoadStep
    \/ StartEnd
    \/ HandlerCreateTask
    \/ ServiceCreateTask
    \/ ReqSchedule
    \/ TimerFires
    \/ CronTick
    \/ FiringStart
    \/ Attempt
    \/ SaveResult
    \/ UpdateStatus
    \/ AfterFiring
    \/ SweepTick
    \/ SweepStep

SpecStart == InitStart /\ [][NextStart]_vars

\* ------------------------------------------------------------- shutdown
\* Where Scheduler.Stop is: after s.cancel(), after s.cron.Stop(), after the
\* timers were stopped (blocked in s.wg.Wait()), returned.
StopStates == {"cancelled", "cronStopped", "waiting", "stopped"}

Stopping(pc) == [pc |-> pc, list |-> <<>>]

SweepExited == [pc |-> "exited", list |-> <<>>, now |-> 0]

\* Stop, first statement: s.cancel(). main installs the signal handler that
\* calls Stop after Start returned.
StopBegin ==
    /\ run.pc = "running"
    /\ run' = Stopping("cancelled")
    /\ UNCHANGED <<call, wiring, now, tasks, results, oneOffTasks, timers,
                   cronEntries, firings, sweep, req, ops, cancelledArmed>>

\* Stop, second statement: s.cron.Stop(); the context it returns is dropped.
StopCron ==
    /\ run.pc = "cancelled"
    /\ run' = Stopping("cronStopped")
    /\ UNCHANGED <<call, wiring, now, tasks, results, oneOffTasks, timers,
                   cronEntries, firings, sweep, req, ops, cancelledArmed>>

\* Stop, under s.mu: timer.Stop() on every handle of the map, then a new map.
StopTimers ==
    /\ run.pc = "cronStopped"
    /\ run' = Stopping("waiting")
    /\ timers' = {k \in timers : \A t \in TaskIds : k.id # oneOffTasks[t]}
    /\ oneOffTasks' = [t \in TaskIds |-> 0]
    /\ UNCHANGED <<call, wiring, now, tasks, results, cronEntries, firings, sweep,
                   req, ops, cancelledArmed>>

\* periodicTaskChecker's select takes <-s.ctx.Done(): the goroutine returns
\* (wg.Done). While it is inside checkMissedTasks it does not look at the
\* context, and with the ticker ready too the select may take either case.
SweepExit ==
    /\ run.pc \in StopStates
    /\ sweep.pc = "wait"
    /\ sweep' = SweepExited
    /\ UNCHANGED <<call, run, wiring, now, tasks, results, oneOffTasks, timers,
                   cronEntries, firings, req, ops, cancelledArmed>>

\* Stop, last statement: s.wg.Wait() returns when periodicTaskChecker, the
\* only goroutine the wait group counts, has returned.
StopReturn ==
    /\ run.pc = "waiting"
    /\ sweep.pc = "exited"
    /\ run' = Stopping("stopped")
    /\ UNCHANGED <<call, wiring, now, tasks, results, oneOffTasks, timers,
                   cronEntries, firings, sweep, req, ops, cancelledArmed>>

NextStop ==
    \/ NextStart
    \/ StopBegin \/ StopCron \/ StopTimers \/ SweepExit \/ StopReturn

SpecStop == InitStart /\ [][NextStop]_vars

\* The process is started, goroutines that can run do run, the sweep ticker
\* and the timers keep firing, and every HTTP attempt ends (the client has
\* a timeout).
FairStart ==
    /\ SpecStart
    /\ WF_vars(StartBegin) /\ WF_vars(LoadStep) /\ WF_vars(StartEnd)
    /\ WF_vars(ReqSchedule) /\ WF_vars(TimerFires)
    /\ WF_vars(SweepTick) /\ WF_vars(SweepStep)
    /\ WF_vars(FiringStart) /\ WF_vars(Attempt) /\ WF_vars(SaveResult)
    /\ WF_vars(UpdateStatus) /\ WF_vars(AfterFiring)

\* ---------------------------------------------------------- failing store
\* resultRepo.Create returns an error: executeTask logs it and goes on.
SaveResultFails ==
    \E i \in 1..Len(firings) :
        /\ firings[i].pc = "save"
        /\ firings' = [firings EXCEPT
              ![i] = Goto(firings[i],
                          IF MarksCompleted(firings[i].task)
                          THEN "status" ELSE AfterPc(firings[i].origin))]
        /\ UNCHANGED <<call, run, wiring, now, tasks, results, oneOffTasks, timers,
                       cronEntries, sweep, req, ops, cancelledArmed>>

\* taskRepo.Update returns an error: executeTask logs it and returns; the
\* row keeps the status it had.
UpdateStatusFails ==
    \E i \in 1..Len(firings) :
        /\ firings[i].pc = "status"
        /\ firings' = [firings EXCEPT
              ![i] = Goto([firings[i] EXCEPT
                             !.task = CompletedTask(firings[i].task)],
                          AfterPc(firings[i].origin))]
        /\ UNCHANGED <<call, run, wiring, now, tasks, results, oneOffTasks, timers,
                       cronEntries, sweep, req, ops, cancelledArmed>>

NextFaulty ==
    \/ NextStart
    \/ SaveResultFails
    \/ UpdateStatusFails

\* A started process whose store may refuse the writes of a firing.
SpecFaulty == InitStart /\ [][NextFaulty]_vars

\* taskRepo.Create returns an error: TaskService.CreateTask returns it
\* without calling the scheduler.
ServiceCreateFails ==
    /\ wiring = "service"
    /\ CanStart
    /\ FreeIds # {}
    /\ ops' = ops + 1
    /\ UNCHANGED <<call, run, wiring, now, tasks, results, oneOffTasks, timers,
                   cronEntries, firings, sweep, req, cancelledArmed>>

\* taskRepo.Update returns an error: TaskService.UpdateTask (after its
\* UnscheduleTask) and TaskHandler.UpdateTask return without anything else.
ReqWriteFails ==
    /\ req # Idle
    /\ req.pc = "write"
    /\ req.op = "update"
    /\ req' = Idle
    /\ UNCHANGED <<call, run, wiring, now, tasks, results, oneOffTasks, timers,
                   cronEntries, firings, sweep, ops, cancelledArmed>>

\* A scheduler that is reached through TaskService only.
InitService == Init /\ wiring = "service"

NextService ==
    \/ Tick
    \/ ServiceCreateTask
    \/ ServiceCreateFails
    \/ ReqSchedule
    \/ UpdateRead
    \/ ReqUnschedule
    \/ ReqWrite
    \/ ReqWriteFails
    \/ TimerFires
    \/ CronTick
    \/ FiringStart
    \/ Attempt
    \/ SaveResult
    \/ UpdateStatus
    \/ AfterFiring
    \/ SweepTick
    \/ SweepStep

\* TaskService over a store whose create and update may fail.
SpecService == InitService /\ [][NextService]_vars

\* Does Scheduler.ScheduleTask return an error? Only scheduleCronTask does,
\* when s.cron.AddFunc rejects the expression.
ScheduleTaskFails(task) ==
    /\ task.triggerType = TriggerTypeCron
    /\ task.cronExpr # NoExpr
    /\ ~ParsesWithSeconds(task.cronExpr)

\* ------------------------------------------------- HTTPExecutor.Execute
\* The bytes of the literal "... (truncated)".
Marker == <<46, 46, 46, 32, 40, 116, 114, 117, 110, 99, 97, 116, 101, 100, 41>>

\* A response body of n bytes: filler bytes ("x"), ending with the bytes of
\* the marker when tail is set.
Body(n, tail) ==
    [i \in 1..n |->
        IF tail /\ i > n - Len(Marker) THEN Marker[i - (n - Len(Marker))]
        ELSE 120]

BodyLengths ==
    {0, Len(Marker)} \cup ((BodyCap - MaxExtra)..(BodyCap + MaxExtra))

Bodies ==
    {Body(n, FALSE) : n \in BodyLengths}
    \cup {Body(n, TRUE) : n \in {m \in BodyLengths : m >= Len(Marker)}}

\* Status codes http.Client.Do hands back.
Statuses == {200, 204, 299, 300, 404, 500}

\* What can happen to one call: prepareRequest fails, client.Do fails, or a
\* response arrives whose body can or cannot be read to the end.
ExecuteInputs ==
    {[outcome |-> o, status |-> 0, readErr |-> FALSE, body |-> <<>>] :
        o \in {"prepare", "transport"}}
    \cup
    {[outcome |-> "response", status |-> s, readErr |-> e, body |-> b] :
        s \in Statuses, e \in BOOLEAN, b \in Bodies}

\* A comparison that already cuts a body of exactly the cap.
OverCapInclusive(bodyStr) == Len(bodyStr) >= BodyCap

\* len(bodyStr) > 10000
OverCap(bodyStr) == Len(bodyStr) > BodyCap

\* A body cap that cuts without saying so.
TruncateNoMarker(bodyStr) ==
    IF OverCap(bodyStr) THEN SubSeq(bodyStr, 1, BodyCap) ELSE bodyStr

\* if len(bodyStr) > 10000 { bodyStr = bodyStr[:10000] + "... (truncated)" }
Truncate(bodyStr) ==
    IF OverCap(bodyStr)
    THEN SubSeq(bodyStr, 1, BodyCap) \o Marker
    ELSE bodyStr

\* HTTPExecutor.Execute: the result it returns. Absent pointers are <<>>;
\* errorMessage holds which message was written.
Execute(in) ==
    LET base == [success |-> FALSE, statusCode |-> <<>>,
                 errorMessage |-> <<>>, responseBody |-> <<>>]
        ok   == in.status >= 200 /\ in.status < 300
    IN  IF in.outcome = "prepare"
        THEN [base EXCEPT !.errorMessage = <<"Failed to prepare request">>]
        ELSE IF in.outcome = "transport"
        THEN [base EXCEPT !.errorMessage = <<"HTTP request failed">>]
        ELSE IF in.readErr
        THEN [base EXCEPT !.success = ok,
                          !.statusCode = <<in.status>>,
                          !.errorMessage = <<"Failed to read response body">>]
        ELSE [base EXCEPT !.success = ok,
                          !.statusCode = <<in.status>>,
                          !.responseBody = <<Truncate(in.body)>>,
                          !.errorMessage =
                              IF ok THEN <<>>
                              ELSE <<"HTTP request returned status">>]

\* One call of HTTPExecutor.Execute, on any of the inputs.
InitExecute ==
    /\ call \in {[pc |-> "ready", in |-> i] : i \in ExecuteInputs}
    /\ run = Running
    /\ wiring = "handler"
    /\ now = 0
    /\ tasks = [t \in TaskIds |-> NoTask]
    /\ results = <<>>
    /\ oneOffTasks = [t \in TaskIds |-> 0]
    /\ timers = {}
    /\ cronEntries = <<>>
    /\ firings = <<>>
    /\ sweep = SweepIdle
    /\ req = Idle
    /\ ops = 0
    /\ cancelledArmed = {}

ExecuteCall ==
    /\ call.pc = "ready"
    /\ call' = [pc |-> "done", in |-> call.in, out |-> Execute(call.in)]
    /\ UNCHANGED <<run, wiring, now, tasks, results, oneOffTasks, timers,
                   cronEntries, firings, sweep, req, ops, cancelledArmed>>

NextExecute == ExecuteCall

SpecExecute == InitExecute /\ [][NextExecute]_vars

\* ------------------------------------------------------ TaskRepository
\* The repository on its own: calls of Delete, GetByID, GetScheduledTasks
\* and List on a store that holds any rows. call.updatedAt is the updated_at
\* column, call.deleted the identities Delete was called on while the row
\* existed; op, id, err and rows describe the last call and what it returned.

\* The error Delete returns: gorm's Update reports no error when the WHERE
\* clause matches no row.
DeleteError(id) == FALSE

\* A GetByID that does not see cancelled rows.
GetByIDErrorIfCancelled(id) ==
    ~Exists(id) \/ tasks[id].status = TaskStatusCancelled

\* The error GetByID returns: db.First fails with ErrRecordNotFound when no
\* row has the id.
GetByIDError(id) == ~Exists(id)

\* List with a status filter, newest first (ORDER BY created_at DESC).
RECURSIVE ListFrom(_, _)
ListFrom(id, status) ==
    IF id < 1 THEN <<>>
    ELSE IF Exists(id) /\ (status = "" \/ tasks[id].status = status)
         THEN <<tasks[id]>> \o ListFrom(id - 1, status)
         ELSE ListFrom(id - 1, status)

List(status) == ListFrom(NumTasks, status)

RepoIdle ==
    [pc |-> "repo", updatedAt |-> [t \in TaskIds |-> 0], deleted |-> {},
     op |-> "", id |-> 0, err |-> FALSE, rows |-> <<>>, before |-> NoTask]

InitRepo ==
    /\ call = RepoIdle
    /\ run = Running
    /\ wiring = "handler"
    /\ now = 0
    /\ tasks \in [TaskIds -> {NoTask} \cup UNION {StoredTasks(t) : t \in TaskIds}]
    /\ \A t \in TaskIds : tasks[t] # NoTask => tasks[t].id = t
    /\ \A t \in TaskIds :
          (tasks[t] # NoTask /\ tasks[t].triggerType = TriggerTypeCron) =>
              (tasks[t].nextRun = NoTime <=> ~ParsesFiveField(tasks[t].cronExpr))
    /\ results = <<>>
    /\ oneOffTasks = [t \in TaskIds |-> 0]
    /\ timers = {}
    /\ cronEntries = <<>>
    /\ firings = <<>>
    /\ sweep = SweepIdle
    /\ req = Idle
    /\ ops = 0
    /\ cancelledArmed = {}

\* TaskRepository.Delete(id); the UPDATE also sets updated_at.
DeleteCall ==
    \E id \in TaskIds :
        /\ tasks' = RepoDelete(id)
        /\ call' = [call EXCEPT
              !.op = "Delete", !.id = id, !.err = DeleteError(id),
              !.rows = <<>>, !.before = tasks[id],
              !.deleted = IF Exists(id) THEN @ \cup {id} ELSE @,
              !.updatedAt[id] = IF Exists(id) THEN now ELSE @]
        /\ UNCHANGED <<run, wiring, now, results, oneOffTasks, timers,
                       cronEntries, firings, sweep, req, ops, cancelledArmed>>

\* TaskRepository.GetByID(id)
GetByIDCall ==
    \E id \in TaskIds :
        /\ call' = [call EXCEPT
              !.op = "GetByID", !.id = id, !.err = GetByIDError(id),
              !.rows = IF GetByIDError(id) THEN <<>> ELSE <<tasks[id]>>,
              !.before = NoTask]
        /\ UNCHANGED <<run, wiring, now, tasks, results, oneOffTasks, timers,
                       cronEntries, firings, sweep, req, ops, cancelledArmed>>

\* TaskRepository.GetScheduledTasks()
GetScheduledCall ==
    /\ call' = [call EXCEPT
          !.op = "GetScheduledTasks", !.id = 0, !.err = FALSE,
          !.rows = GetScheduledTasks, !.before = NoTask]
    /\ UNCHANGED <<run, wiring, now, tasks, results, oneOffTasks, timers,
                   cronEntries, firings, sweep, req, ops, cancelledArmed>>

\* TaskRepository.List(limit, offset, status) with room for every row.
ListCall ==
    \E status \in {"", TaskStatusScheduled, TaskStatusCancelled,
                   TaskStatusCompleted} :
        /\ call' = [call EXCEPT
              !.op = "List", !.id = 0, !.err = FALSE,
              !.rows = List(status), !.before = NoTask]
        /\ UNCHANGED <<run, wiring, now, tasks, results, oneOffTasks, timers,
                       cronEntries, firings, sweep, req, ops, cancelledArmed>>

NextRepo ==
    \/ Tick
    \/ DeleteCall
    \/ GetByIDCall
    \/ GetScheduledCall
    \/ ListCall

SpecRepo == InitRepo /\ [][NextRepo]_vars

\* ------------------------------------------------------- list endpoints
\* The value of a query parameter: absent, not a number, or a number.
NoParam     == [kind |-> "absent", value |-> 0]
NotANumber  == [kind |-> "text", value |-> 0]
Number(n)   == [kind |-> "int", value |-> n]

\* strconv.Atoi(c.DefaultQuery(name, def)) with the error dropped: the
\* default when the parameter is absent, 0 when it is not a number.
AtoiDefaultQuery(q, def) ==
    IF q.kind = "absent" THEN def
    ELSE IF q.kind = "text" THEN 0
    ELSE q.value

\* GetTasks / GetResults: if limit < 1 || limit > 100 { limit = 10 }
EffectiveLimit(q) ==
    LET limit == AtoiDefaultQuery(q, defaultLimit)
    IN  IF limit < 1 \/ limit > maxLimit THEN defaultLimit ELSE limit

\* if page < 1 { page = 1 }
EffectivePage(q) ==
    LET page == AtoiDefaultQuery(q, 1)
    IN  IF page < 1 THEN 1 ELSE page

LimitParams ==
    {NoParam, NotANumber} \cup {Number(n) : n \in -1..(maxLimit + MaxOver)}

PageParams == {NoParam} \cup {Number(n) : n \in 0..MaxPage}

\* One request to a list endpoint.
InitPage ==
    /\ call \in {[pc |-> "query", limit |-> l, page |-> p] :
                    l \in LimitParams, p \in PageParams}
    /\ run = Running
    /\ wiring = "handler"
    /\ now = 0
    /\ tasks = [t \in TaskIds |-> NoTask]
    /\ results = <<>>
    /\ oneOffTasks = [t \in TaskIds |-> 0]
    /\ timers = {}
    /\ cronEntries = <<>>
    /\ firings = <<>>
    /\ sweep = SweepIdle
    /\ req = Idle
    /\ ops = 0
    /\ cancelledArmed = {}

\* What a list handler passes to the repository's List.
Paged(endpoint) ==
    [pc |-> endpoint, limit |-> call.limit, page |-> call.page,
     effLimit |-> EffectiveLimit(call.limit),
     offset |-> (EffectivePage(call.page) - 1) * EffectiveLimit(call.limit)]

\* TaskHandler.GetTasks
GetTasks ==
    /\ call.pc = "query"
    /\ call' = Paged("tasks")
    /\ UNCHANGED <<run, wiring, now, tasks, results, oneOffTasks, timers,
                   cronEntries, firings, sweep, req, ops, cancelledArmed>>

\* ResultHandler.GetResults
GetResults ==
    /\ call.pc = "query"
    /\ call' = Paged("results")
    /\ UNCHANGED <<run, wiring, now, tasks, results, oneOffTasks, timers,
                   cronEntries, firings, sweep, req, ops, cancelledArmed>>

NextPage == GetTasks \/ GetResults

SpecPage == InitPage /\ [][NextPage]_vars

\* --------------------------------------------------------------- metrics
\* Metrics on its own: NumRecorders firings whose executor has returned call
\* RecordTaskExecution concurrently while a reader calls GetMetrics.
\* call.mu is the RWMutex, call.total / ok / failed the counters, call.rec
\* the recorders (attempts: how many HTTP attempts the firing made; reg: the
\* value m.TotalTasksExecuted++ has loaded), call.reader the GetMetrics
\* caller and call.snapshot the map it last returned.
Recorders == 1..NumRecorders

NoSnapshot == [total |-> 0, ok |-> 0, failed |-> 0]

\* A mutex that lets every writer in.
CanLockAlways(mu) == mu.writer = mu.writer

\* m.mu.Lock(): no writer and no reader holds the mutex.
CanLock(mu) == mu.writer = 0 /\ mu.readers = 0

\* m.mu.RLock(): no writer holds the mutex.
CanRLock(mu) == mu.writer = 0

InitMetrics ==
    /\ call \in {[pc |-> "metrics",
                  mu |-> [writer |-> 0, readers |-> 0],
                  total |-> 0, ok |-> 0, failed |-> 0,
                  rec |-> r, reader |-> "idle", snapshot |-> NoSnapshot] :
                    r \in [Recorders ->
                             {[pc |-> "lock", success |-> s, attempts |-> a,
                               reg |-> 0] :
                                 s \in BOOLEAN, a \in 1..(maxRetries + 1)}]}
    /\ run = Running
    /\ wiring = "handler"
    /\ now = 0
    /\ tasks = [t \in TaskIds |-> NoTask]
    /\ results = <<>>
    /\ oneOffTasks = [t \in TaskIds |-> 0]
    /\ timers = {}
    /\ cronEntries = <<>>
    /\ firings = <<>>
    /\ sweep = SweepIdle
    /\ req = Idle
    /\ ops = 0
    /\ cancelledArmed = {}

MetricsFrame ==
    UNCHANGED <<run, wiring, now, tasks, results, oneOffTasks, timers,
                cronEntries, firings, sweep, req, ops, cancelledArmed>>

\* RecordTaskExecution: m.mu.Lock()
RecordLock ==
    \E i \in Recorders :
        /\ call.rec[i].pc = "lock"
        /\ CanLock(call.mu)
        /\ call' = [call EXCEPT !.mu.writer = i, !.rec[i].pc = "load"]
        /\ MetricsFrame

\* m.TotalTasksExecuted++, the load
RecordLoad ==
    \E i \in Recorders :
        /\ call.rec[i].pc = "load"
        /\ call' = [call EXCEPT !.rec[i].reg = call.total,
                                !.rec[i].pc = "store"]
        /\ MetricsFrame

\* m.TotalTasksExecuted++, the store
RecordStore ==
    \E i \in Recorders :
        /\ call.rec[i].pc = "store"
        /\ call' = [call EXCEPT !.total = call.rec[i].reg + 1,
                                !.rec[i].pc = "outcome"]
        /\ MetricsFrame

\* if success { m.SuccessfulTasks++ } else { m.FailedTasks++ }
RecordOutcome ==
    \E i \in Recorders :
        /\ call.rec[i].pc = "outcome"
        /\ call' = IF call.rec[i].success
                   THEN [call EXCEPT !.ok = @ + 1, !.rec[i].pc = "unlock"]
                   ELSE [call EXCEPT !.failed = @ + 1, !.rec[i].pc = "unlock"]
        /\ MetricsFrame

\* the deferred m.mu.Unlock()
RecordUnlock ==
    \E i \in Recorders :
        /\ call.rec[i].pc = "unlock"
        /\ call' = [call EXCEPT !.mu.writer = 0, !.rec[i].pc = "done"]
        /\ MetricsFrame

\* GetMetrics: m.mu.RLock()
ReadLock ==
    /\ call.pc = "metrics"
    /\ call.reader = "idle"
    /\ CanRLock(call.mu)
    /\ call' = [call EXCEPT !.mu.readers = @ + 1, !.reader = "read"]
    /\ MetricsFrame

\* GetMetrics: the map is built from the counters; the deferred RUnlock.
ReadSnapshot ==
    /\ call.pc = "metrics"
    /\ call.reader = "read"
    /\ call' = [call EXCEPT
          !.mu.readers = @ - 1, !.reader = "idle",
          !.snapshot = [total |-> call.total, ok |-> call.ok,
                        failed |-> call.failed]]
    /\ MetricsFrame

NextMetrics ==
    \/ RecordLock
    \/ RecordLoad
    \/ RecordStore
    \/ RecordOutcome
    \/ RecordUnlock
    \/ ReadLock
    \/ ReadSnapshot

SpecMetrics == InitMetrics /\ [][NextMetrics]_vars

\* ------------------------------------------------------------ s.mu
\* The lock discipline of the scheduler on its own: NumCallers threads call
\* ScheduleTask (for a one-off task that is due, a one-off task in the
\* future, or a cron task), UnscheduleTask or Stop; the callbacks and
\* goroutines they create run beside them. call.mu is the thread holding
\* s.mu (0: none), call.th the threads; a thread's pc names the statement
\* it is about to execute and ret where it continues when executeTask
\* returns.
Entry(kind) ==
    [kind |-> kind, pc |-> "lock", ret |-> "done"]

\* The callback time.AfterFunc will run: executeTask, then the clean-up.
TimerCallback == [kind |-> "timer", pc |-> "exec", ret |-> "lock"]

\* The callback s.cron.AddFunc registers: GetByID, executeTask,
\* UpdateNextRun.
CronCallback == [kind |-> "cron", pc |-> "read", ret |-> "next"]

\* The goroutine of go s.executeTask(task).
Worker == [kind |-> "worker", pc |-> "exec", ret |-> "done"]

EntryKinds == {"schedule-due", "schedule-future", "schedule-cron",
               "unschedule", "stop"}

\* The statement a thread is at once it holds s.mu.
FirstLocked(kind) ==
    CASE kind = "schedule-due"    -> "go"
      [] kind = "schedule-future" -> "arm"
      [] kind = "schedule-cron"   -> "addfunc"
      [] OTHER                    -> "drop"

\* Program points inside the executor (the outbound HTTP call).
ExecutorPcs == {"exec"}

\* Program points inside a repository call.
RepositoryPcs == {"read", "save", "status", "next"}

InitLock ==
    /\ call \in {[pc |-> "mu", mu |-> 0, th |-> t] :
                    t \in [1..NumCallers -> {Entry(k) : k \in EntryKinds}]}
    /\ run = Running
    /\ wiring = "service"
    /\ now = 0
    /\ tasks = [t \in TaskIds |-> NoTask]
    /\ results = <<>>
    /\ oneOffTasks = [t \in TaskIds |-> 0]
    /\ timers = {}
    /\ cronEntries = <<>>
    /\ firings = <<>>
    /\ sweep = SweepIdle
    /\ req = Idle
    /\ ops = 0
    /\ cancelledArmed = {}

LockFrame ==
    UNCHANGED <<run, wiring, now, tasks, results, oneOffTasks, timers,
                cronEntries, firings, sweep, req, ops, cancelledArmed>>

\* Thread i moves to pc.
Step(c, i, pc) == [c EXCEPT !.th[i].pc = pc]

\* s.mu.Lock()
Acquire ==
    \E i \in 1..Len(call.th) :
        /\ call.th[i].pc = "lock"
        /\ call.mu = 0
        /\ call' = [Step(call, i, FirstLocked(call.th[i].kind))
                      EXCEPT !.mu = i]
        /\ LockFrame

\* s.mu.Unlock()
Release ==
    \E i \in 1..Len(call.th) :
        /\ call.th[i].pc = "unlock"
        /\ call' = [Step(call, i, "done") EXCEPT !.mu = 0]
        /\ LockFrame

\* A scheduleOneOffTask that calls executeTask itself.
CallExecuteTask(c, i) ==
    [c EXCEPT !.th[i].pc = "exec", !.th[i].ret = "unlock"]

\* scheduleOneOffTask, duration <= 0: go s.executeTask(task); return nil.
GoExecuteTask(c, i) ==
    [Step(c, i, "unlock") EXCEPT !.th = Append(@, Worker)]

Dispatch ==
    \E i \in 1..Len(call.th) :
        /\ call.th[i].pc = "go"
        /\ call' = GoExecuteTask(call, i)
        /\ LockFrame

\* scheduleOneOffTask, duration > 0: time.AfterFunc and the map write.
Arm ==
    \E i \in 1..Len(call.th) :
        /\ call.th[i].pc = "arm"
        /\ call' = [Step(call, i, "unlock")
                      EXCEPT !.th = Append(@, TimerCallback)]
        /\ LockFrame

\* scheduleCronTask: s.cron.AddFunc registers the callback.
AddFunc ==
    \E i \in 1..Len(call.th) :
        /\ call.th[i].pc = "addfunc"
        /\ call' = [Step(call, i, "unlock")
                      EXCEPT !.th = Append(@, CronCallback)]
        /\ LockFrame

\* timer.Stop() and the map delete of UnscheduleTask, of Stop and of the
\* timer callback's clean-up.
Drop ==
    \E i \in 1..Len(call.th) :
        /\ call.th[i].pc = "drop"
        /\ call' = Step(call, i, "unlock")
        /\ LockFrame

\* The cron callback's s.taskRepo.GetByID: a missing or inactive task ends
\* the callback.
CronRead ==
    \E i \in 1..Len(call.th), active \in BOOLEAN :
        /\ call.th[i].pc = "read"
        /\ call' = Step(call, i, IF active THEN "exec" ELSE "done")
        /\ LockFrame

\* executeTask: s.executor.Execute(task) returns.
Executed ==
    \E i \in 1..Len(call.th) :
        /\ call.th[i].pc = "exec"
        /\ call' = Step(call, i, "save")
        /\ LockFrame

\* executeTask: s.resultRepo.Create(result) returns; a one-off task goes on
\* to s.taskRepo.Update, a cron task returns to the callback.
Saved ==
    \E i \in 1..Len(call.th) :
        /\ call.th[i].pc = "save"
        /\ call' = Step(call, i, IF call.th[i].kind = "cron"
                                 THEN call.th[i].ret ELSE "status")
        /\ LockFrame

\* executeTask: s.taskRepo.Update(task) returns, and executeTask with it.
StatusWritten ==
    \E i \in 1..Len(call.th) :
        /\ call.th[i].pc = "status"
        /\ call' = Step(call, i, call.th[i].ret)
        /\ LockFrame

\* The cron callback's s.taskRepo.UpdateNextRun returns.
NextRunWritten ==
    \E i \in 1..Len(call.th) :
        /\ call.th[i].pc = "next"
        /\ call' = Step(call, i, "done")
        /\ LockFrame

NextLock ==
    \/ Acquire
    \/ Release
    \/ Dispatch
    \/ Arm
    \/ AddFunc
    \/ Drop
    \/ CronRead
    \/ Executed
    \/ Saved
    \/ StatusWritten
    \/ NextRunWritten

SpecLock == InitLock /\ [][NextLock]_vars

\* ------------------------------------------------------------ re-arming
\* A running process (service wiring) in which a one-off task created
\* earlier is stored as scheduled and its timer is pending; the clock
\* origin is arbitrary, so the timer's deadline may be the present instant.
\* The clock stands still while update requests race with the firing.
InitRearm ==
    /\ call = NoCall
    /\ run = Running
    /\ wiring = "service"
    /\ now = 0
    /\ \E d \in Times :
          /\ tasks = [t \in TaskIds |->
                        [id |-> t, triggerType |-> TriggerTypeOneOff,
                         triggerTime |-> d, cronExpr |-> NoExpr,
                         status |-> TaskStatusScheduled, nextRun |-> d]]
          /\ timers = {[id |-> t, task |-> tasks[t], deadline |-> d] :
                          t \in TaskIds}
    /\ oneOffTasks = [t \in TaskIds |-> t]
    /\ results = <<>>
    /\ cronEntries = <<>>
    /\ firings = <<>>
    /\ sweep = SweepIdle
    /\ req = Idle
    /\ ops = 0
    /\ cancelledArmed = {}

NextRearm ==
    \/ UpdateRead
    \/ ReqUnschedule
    \/ ReqWrite
    \/ ReqSchedule
    \/ TimerFires
    \/ FiringStart
    \/ Attempt
    \/ SaveResult
    \/ UpdateStatus
    \/ AfterFiring

SpecRearm == InitRearm /\ [][NextRearm]_vars

\* ------------------------------------------------------ e.client
\* The HTTPExecutor's client field on its own: NumCallers threads call
\* Execute or ExecuteWithTimeout concurrently. call.client is e.client
\* ("default": the 30-second client of NewHTTPExecutor; "custom" with the
\* caller's number: the client an ExecuteWithTimeout built). A thread's
\* original is its local originalClient, used the client its Execute sent
\* the request with. The accesses to e.client are unsynchronised; each is
\* one step.
DefaultClient == "default"

NoClient == "none"

CustomClient(i) == IF i = 1 THEN "custom1"
                   ELSE IF i = 2 THEN "custom2" ELSE "custom3"

ExecutorCall(kind) ==
    [kind |-> kind, pc |-> IF kind = "timeout" THEN "save" ELSE "execute",
     original |-> NoClient, used |-> NoClient]

InitClient ==
    /\ call \in {[pc |-> "client", client |-> DefaultClient, th |-> t] :
                    t \in [1..NumCallers ->
                             {ExecutorCall(k) : k \in {"plain", "timeout"}}]}
    /\ run = Running
    /\ wiring = "handler"
    /\ now = 0
    /\ tasks = [t \in TaskIds |-> NoTask]
    /\ results = <<>>
    /\ oneOffTasks = [t \in TaskIds |-> 0]
    /\ timers = {}
    /\ cronEntries = <<>>
    /\ firings = <<>>
    /\ sweep = SweepIdle
    /\ req = Idle
    /\ ops = 0
    /\ cancelledArmed = {}

\* ExecuteWithTimeout: originalClient := e.client
SaveOriginal ==
    \E i \in 1..NumCallers :
        /\ call.th[i].pc = "save"
        /\ call' = [call EXCEPT !.th[i].original = call.client,
                                !.th[i].pc = "swap"]
        /\ LockFrame

\* ExecuteWithTimeout: e.client = client
SwapClient ==
    \E i \in 1..NumCallers :
        /\ call.th[i].pc = "swap"
        /\ call' = [call EXCEPT !.client = CustomClient(i),
                                !.th[i].pc = "execute"]
        /\ LockFrame

\* Execute: resp, err := e.client.Do(req)
ClientDo ==
    \E i \in 1..NumCallers :
        /\ call.th[i].pc = "execute"
        /\ call' = [call EXCEPT
              !.th[i].used = call.client,
              !.th[i].pc = IF call.th[i].kind = "timeout"
                           THEN "restore" ELSE "done"]
        /\ LockFrame

\* ExecuteWithTimeout: e.client = originalClient
RestoreClient ==
    \E i \in 1..NumCallers :
        /\ call.th[i].pc = "restore"
        /\ call' = [call EXCEPT !.client = call.th[i].original,
                                !.th[i].pc = "done"]
        /\ LockFrame

NextClient ==
    \/ SaveOriginal
    \/ SwapClient
    \/ ClientDo
    \/ RestoreClient

SpecClient == InitClient /\ [][NextClient]_vars

\* ------------------------------------------------------ range loops
\* The loops "for _, task := range tasks" of loadExistingTasks and
\* checkMissedTasks on their own, with the loop variable of Go 1.21: one
\* variable for the whole loop, assigned at the start of every iteration.
\* ScheduleTask(&task) and go s.executeTask(&task) hand out the address of
\* that variable. call.list is the identities of the rows read, call.idx
\* the iterations begun, call.task the loop variable (0: not yet assigned)
\* and call.disp the callbacks and goroutines created: cause is the row
\* whose iteration created it, seen the identity it found behind the
\* pointer when it ran (0: has not run).
LoadedIds == 1..NumLoaded

\* The lists of distinct rows a query can return.
RowLists ==
    {l \in [1..NumLoaded -> LoadedIds] :
        \A a, b \in 1..NumLoaded : a # b => l[a] # l[b]}

\* What an iteration creates: loadExistingTasks arms a timer, registers a
\* cron callback or dispatches a due one-off task with a go statement;
\* checkMissedTasks only dispatches with a go statement.
Origins(kind) ==
    IF kind = "load" THEN {"timer", "cron", "worker"} ELSE {"worker"}

InitRange ==
    /\ call \in {[pc |-> "range", kind |-> k, list |-> l, idx |-> 0,
                  task |-> 0, disp |-> <<>>] :
                    k \in {"load", "sweep"}, l \in RowLists}
    /\ run = Running
    /\ wiring = "handler"
    /\ now = 0
    /\ tasks = [t \in TaskIds |-> NoTask]
    /\ results = <<>>
    /\ oneOffTasks = [t \in TaskIds |-> 0]
    /\ timers = {}
    /\ cronEntries = <<>>
    /\ firings = <<>>
    /\ sweep = SweepIdle
    /\ req = Idle
    /\ ops = 0
    /\ cancelledArmed = {}

\* What a callback or goroutine finds behind the pointer it was given: the
\* loop variable as it is now.
Pointee(c, d) == c.task

\* The start of an iteration: task = tasks[idx].
RangeNext ==
    /\ call.pc = "range"
    /\ call.idx < Len(call.list)
    /\ call' = [call EXCEPT !.idx = @ + 1,
                            !.task = call.list[call.idx + 1],
                            !.pc = "body"]
    /\ LockFrame

\* The body of an iteration: s.ScheduleTask(&task) in loadExistingTasks,
\* go s.executeTask(&task) in checkMissedTasks.
RangeBody ==
    /\ call.pc = "body"
    /\ \E o \in Origins(call.kind) :
          call' = [call EXCEPT
              !.disp = Append(@, [cause |-> call.task, origin |-> o,
                                  seen |-> 0]),
              !.pc = "range"]
    /\ LockFrame

\* The loop ends; the variable lives on in what captured its address.
RangeEnd ==
    /\ call.pc = "range"
    /\ call.idx = Len(call.list)
    /\ call' = [call EXCEPT !.pc = "done"]
    /\ LockFrame

\* A timer callback, a cron callback or a goroutine runs and reads the
\* task through its pointer (task.ID in the callback and in executeTask).
DispatchRuns ==
    \E j \in 1..Len(call.disp) :
        /\ call.pc \in {"range", "body", "done"}
        /\ call.disp[j].seen = 0
        /\ call' = [call EXCEPT !.disp[j].seen = Pointee(call, call.disp[j])]
        /\ LockFrame

NextRange ==
    \/ RangeNext
    \/ RangeBody
    \/ RangeEnd
    \/ DispatchRuns

SpecRange == InitRange /\ [][NextRange]_vars

\* ------------------------------------------------------ taskLogger
\* main's handling of the task log and one dispatch of executeTask, step
\* by step. call.pc is the process ("main": before NewTaskLogger, "up":
\* scheduler built, "crashed": ended by an unrecovered panic),
\* call.taskLogger the logger main hands to NewScheduler, call.task the
\* dispatched task, call.f the executeTask invocation, call.rows the
\* task_results rows written and call.lines the log lines written.
InitLogger ==
    /\ call \in {[pc |-> "main", taskLogger |-> "unset",
                  task |-> [triggerType |-> ty,
                            status |-> TaskStatusScheduled],
                  f |-> [pc |-> "idle", attempts |-> 0,
                         result |-> NoResult, origin |-> ""],
                  rows |-> 0, lines |-> 0] :
                    ty \in {TriggerTypeOneOff, TriggerTypeCron}}
    /\ run = Running
    /\ wiring = "handler"
    /\ now = 0
    /\ tasks = [t \in TaskIds |-> NoTask]
    /\ results = <<>>
    /\ oneOffTasks = [t \in TaskIds |-> 0]
    /\ timers = {}
    /\ cronEntries = <<>>
    /\ firings = <<>>
    /\ sweep = SweepIdle
    /\ req = Idle
    /\ ops = 0
    /\ cancelledArmed = {}

\* main: logger.NewTaskLogger opens the file or fails; on failure main logs
\* the error, sets taskLogger = nil and goes on.
MainNewTaskLogger ==
    /\ call.pc = "main"
    /\ \E opened \in BOOLEAN :
          call' = [call EXCEPT
              !.pc = "up",
              !.taskLogger = IF opened THEN "file" ELSE "nil"]
    /\ LockFrame

\* A timer, the cron registry or the sweep dispatches the task.
LoggerDispatch ==
    /\ call.pc = "up"
    /\ call.f.pc = "idle"
    /\ \E o \in IF call.task.triggerType = TriggerTypeCron
               THEN {"cron"} ELSE {"timer", "immediate", "sweep"} :
          call' = [call EXCEPT !.f.pc = "exec", !.f.origin = o]
    /\ LockFrame

\* executeTask: one attempt of s.executor.Execute(task).
LoggerAttempt ==
    /\ call.pc = "up"
    /\ call.f.pc = "exec"
    /\ \E resp \in Responses :
          LET result == HTTPExecute(resp, call.f.attempts + 1)
          IN  call' = [call EXCEPT
                  !.f.attempts = @ + 1,
                  !.f.result = LastResult(call.f.result, result),
                  !.f.pc = IF RetryAgain(call.f.attempts + 1, result)
                           THEN "exec" ELSE "metrics"]
    /\ LockFrame

\* executeTask: s.metrics.RecordTaskExecution(duration, result.Success)
LoggerRecordMetrics ==
    /\ call.pc = "up"
    /\ call.f.pc = "metrics"
    /\ call' = [call EXCEPT !.f.pc = "log"]
    /\ LockFrame

\* LogTaskExecution on a nil *TaskLogger: building the entry works, l.file
\* dereferences nil; nothing recovers the panic, the process ends.
NilLoggerCall(c) == [c EXCEPT !.f.pc = "panic", !.pc = "crashed"]

\* executeTask: s.taskLogger.LogTaskExecution(task, result)
LogTaskExecution ==
    /\ call.pc = "up"
    /\ call.f.pc = "log"
    /\ call' = IF call.taskLogger = "nil"
               THEN NilLoggerCall(call)
               ELSE [call EXCEPT !.lines = @ + 1, !.f.pc = "save"]
    /\ LockFrame

\* executeTask: s.resultRepo.Create(result)
LoggerCreateResult ==
    /\ call.pc = "up"
    /\ call.f.pc = "save"
    /\ call' = [call EXCEPT
          !.rows = @ + 1,
          !.f.pc = IF MarksCompleted(call.task) THEN "status" ELSE "done"]
    /\ LockFrame

\* executeTask, one-off: task.Status = completed; s.taskRepo.Update(task)
LoggerUpdateStatus ==
    /\ call.pc = "up"
    /\ call.f.pc = "status"
    /\ call' = [call EXCEPT !.task.status = TaskStatusCompleted,
                            !.f.pc = "done"]
    /\ LockFrame

NextLogger ==
    \/ MainNewTaskLogger
    \/ LoggerDispatch
    \/ LoggerAttempt
    \/ LoggerRecordMetrics
    \/ LogTaskExecution
    \/ LoggerCreateResult
    \/ LoggerUpdateStatus

SpecLogger == InitLogger /\ [][NextLogger]_vars

\* ================================================================ claims
FiringIds == 1..Len(firings)

\* The rows of task_results written by firing i / for task t.
RowsOfFiring(i) == {j \in 1..Len(results) : results[j].firing = i}
RowsOfTask(t)   == {j \in 1..Len(results) : results[j].taskId = t}

\* Firing i has handed its result to executeTask and is past the persist.
PastSave(i) == firings[i].pc \in {"status", "after", "done"}

\* C1: RetryExecutor.Execute makes between 1 and 3 attempts per firing: it
\* never makes another attempt after a successful one, it goes on after
\* every non-success until 3 attempts are made, and it returns a failure only
\* after exactly 3 attempts.
C1_RetryAttempts ==
    \A i \in FiringIds :
        LET f == firings[i]
        IN  /\ f.attempts <= 3
            /\ (f.pc = "exec" /\ f.attempts > 0) =>
                  (~f.result.success /\ f.attempts < 3)
            /\ f.pc = "save" =>
                  /\ f.attempts >= 1
                  /\ (f.result.success \/ f.attempts = 3)

\* A firing whose three attempts all failed has returned from the executor.
C1_Witness ==
    \E i \in FiringIds :
        /\ firings[i].pc = "save"
        /\ firings[i].attempts = 3
        /\ ~firings[i].result.success

StartedFor(t) ==
    {i \in FiringIds : /\ firings[i].task.id = t
                       /\ firings[i].task.triggerType = TriggerTypeOneOff
                       /\ firings[i].pc # "start"}

\* C3: a one-off task is dispatched at most once: executeTask is started at
\* most once for it and at most one result row exists for it.
C3_OneOffAtMostOnce ==
    \A t \in TaskIds :
        (Exists(t) /\ tasks[t].triggerType = TriggerTypeOneOff) =>
            /\ Cardinality(StartedFor(t)) <= 1
            /\ Cardinality({j \in RowsOfTask(t) :
                   firings[results[j].firing].task.triggerType
                      = TriggerTypeOneOff}) <= 1

\* C4: once the store holds status cancelled for a task, no step changes
\* that status.
C4_CancelledStays ==
    [][\A t \in TaskIds :
          (Exists(t) /\ tasks[t].status = TaskStatusCancelled) =>
              tasks'[t].status = TaskStatusCancelled]_vars

\* C5: once a task's status is cancelled, no step writes a result row for it.
C5_NoRowAfterCancel ==
    [][\A t \in TaskIds :
          (Exists(t) /\ tasks[t].status = TaskStatusCancelled) =>
              Len(results') = Len(results)
              \/ results'[Len(results')].taskId # t]_vars

\* C6: whenever executeTask begins for a task, the task's status in the store
\* is scheduled.
C6_DispatchOnlyScheduled ==
    [][\A i \in FiringIds :
          (firings[i].pc = "start" /\ firings'[i].pc = "exec") =>
              tasks[firings[i].task.id].status = TaskStatusScheduled]_vars

\* C7: the status of a one-off task leaves only scheduled: completed and
\* cancelled are terminal.
C7_OneOffTerminal ==
    [][\A t \in TaskIds :
          (/\ Exists(t)
           /\ tasks[t].triggerType = TriggerTypeOneOff
           /\ tasks[t].status # TaskStatusScheduled) =>
              tasks'[t].status = tasks[t].status]_vars

C9_CancelArmedOneOff ==
    \A c \in cancelledArmed :
        /\ oneOffTasks[c.id] = 0
        /\ \A k \in timers : k.task.id # c.id
        /\ \A i \in FiringIds : i > c.dispatched => firings[i].task.id # c.id
        /\ tasks[c.id].status = TaskStatusCancelled
        /\ RowsOfTask(c.id) = {}

\* C10: executeTask never begins for a scheduled one-off task while the fire
\* time the store holds for it is still in the future.
C10_NotBeforeFireTime ==
    [][\A i \in FiringIds :
          LET cur == tasks[firings[i].task.id]
          IN  (/\ firings[i].pc = "start"
               /\ firings'[i].pc = "exec"
               /\ firings[i].task.triggerType = TriggerTypeOneOff
               /\ cur.triggerType = TriggerTypeOneOff
               /\ cur.status = TaskStatusScheduled) =>
                  cur.triggerTime <= now]_vars

Armed(t) ==
    IF tasks[t].triggerType = TriggerTypeOneOff
    THEN \/ \E k \in timers : k.task.id = t
         \/ \E i \in FiringIds : firings[i].task.id = t
    ELSE \E i \in 1..Len(cronEntries) : cronEntries[i].task.id = t

\* C12: when Start returns, every task whose stored status is scheduled is
\* armed, also when its next_run is still in the future.
C12_StartArmsScheduled ==
    [][(run.pc = "load" /\ run'.pc = "running") =>
          \A t \in TaskIds :
              (Exists(t) /\ tasks[t].status = TaskStatusScheduled) =>
                  Armed(t)']_vars

\* C13: while the scheduler runs, every scheduled one-off task has a live
\* timer in the scheduler's map or a fire time that is not in the future.
C13_TimerOrDue ==
    run.pc = "running" =>
        \A t \in TaskIds :
            (/\ Exists(t)
             /\ tasks[t].triggerType = TriggerTypeOneOff
             /\ tasks[t].status = TaskStatusScheduled) =>
                \/ /\ oneOffTasks[t] # 0
                   /\ \E k \in timers : k.id = oneOffTasks[t]
                \/ tasks[t].triggerTime <= now

C15_SweepCronOnlyNextRun ==
    [][(/\ sweep.pc = "loop"
        /\ sweep' # sweep
        /\ Head(sweep.list).triggerType = TriggerTypeCron) =>
           LET row == Head(sweep.list)
           IN  /\ firings' = firings
               /\ results' = results
               /\ \A t \in TaskIds :
                     Exists(t) => tasks'[t].status = tasks[t].status
               /\ (Missed(row, sweep.now) /\ Exists(row.id)) =>
                     tasks'[row.id].nextRun = CronNext(row.cronExpr, now)]_vars

\* C16: when ScheduleTask returns for a cron task whose expression has five
\* fields (it passed validateTrigger), the cron registry holds an entry for
\* the task.
C16_FiveFieldArmed ==
    [][(/\ req # Idle
        /\ req.pc = "schedule"
        /\ req' = Idle
        /\ req.task.triggerType = TriggerTypeCron
        /\ ParseStandard(req.task.cronExpr)
        /\ ParsesFiveField(req.task.cronExpr)) =>
           \E i \in 1..Len(cronEntries') :
               cronEntries'[i].task.id = req.task.id]_vars

\* The positions of the cron registry that belong to task t.
EntriesOf(t) == {i \in 1..Len(cronEntries) : cronEntries[i].task.id = t}

\* C17: the cron registry holds at most one entry per task, and once a
\* request has returned it holds none for a task that is cancelled.
C17_OneCronEntry ==
    \A t \in TaskIds :
        /\ Cardinality(EntriesOf(t)) <= 1
        /\ (/\ req = Idle
            /\ Exists(t)
            /\ tasks[t].status = TaskStatusCancelled) => EntriesOf(t) = {}

\* C18: of two result rows of the same task, the one persisted later never
\* has the smaller run_at.
C18_RunAtOrder ==
    \A j, k \in 1..Len(results) :
        (j < k /\ results[j].taskId = results[k].taskId) =>
            results[j].runAt <= results[k].runAt

\* C19: once Stop has cancelled the context no new firing starts.
C19_NoDispatchAfterStop ==
    [][run.pc \in StopStates => Len(firings') = Len(firings)]_vars

\* C20: when Stop has returned every firing has finished.
C20_StopQuiesces ==
    run.pc = "stopped" => \A i \in FiringIds : firings[i].pc = "done"

\* C21: once a firing of a one-off task has finished, with its store writes
\* done or failed, no later sweep picks the task for execution again.
C21_NoRerunAfterFailedWrite ==
    [][(sweep.pc = "wait" /\ sweep'.pc = "loop") =>
          \A k \in 1..Len(sweep'.list) :
              LET row == sweep'.list[k]
              IN  (/\ row.triggerType = TriggerTypeOneOff
                   /\ Missed(row, sweep'.now)) =>
                      ~\E i \in FiringIds :
                          /\ firings[i].pc = "done"
                          /\ firings[i].task.id = row.id]_vars

\* C22: when TaskService.UpdateTask returns because its store write failed
\* and the store still holds the task as a scheduled one-off task with a fire
\* time in the future, the scheduler still holds a pending timer for it.
C22_FailedUpdateKeepsArmed ==
    [][(/\ wiring = "service"
        /\ req # Idle
        /\ req.op = "update"
        /\ req.pc = "write"
        /\ req.task.status = TaskStatusScheduled
        /\ req' = Idle) =>
           \A t \in {req.task.id} :
               (/\ tasks'[t].status = TaskStatusScheduled
                /\ tasks'[t].triggerType = TriggerTypeOneOff
                /\ tasks'[t].triggerTime > now) =>
                   \E k \in timers' : k.task.id = t]_vars

\* C23: when TaskService.CreateTask returns success the task is stored with
\* status scheduled and armed; when it returns an error the task is neither
\* stored nor armed.
C23_CreateMirrored ==
    [][(/\ req # Idle
        /\ req.op = "create"
        /\ req.pc = "schedule"
        /\ req' = Idle) =>
           \A t \in {req.task.id} :
               IF ScheduleTaskFails(req.task)
               THEN ~Exists(t)'
               ELSE /\ Exists(t)'
                    /\ tasks'[t].status = TaskStatusScheduled
                    /\ Armed(t)']_vars

\* The call under examination has returned / has returned a body.
Returned == call.pc = "done"
HasBody  == Returned /\ call.out.responseBody # <<>>

\* Does the byte string end with the bytes of the marker?
EndsWithMarker(b) ==
    /\ Len(b) >= Len(Marker)
    /\ \A j \in 1..Len(Marker) : b[Len(b) - Len(Marker) + j] = Marker[j]

\* C24: a result of HTTPExecutor.Execute has success exactly when a response
\* with a status in [200, 300) arrived and neither the transport nor the body
\* read failed; it has no status_code on a transport failure; it has an
\* error_message exactly when success is false.
C24_ResultShape ==
    Returned =>
        /\ call.out.success <=>
              (/\ call.in.outcome = "response"
               /\ call.in.status >= 200 /\ call.in.status < 300
               /\ ~call.in.readErr)
        /\ call.in.outcome = "transport" => call.out.statusCode = <<>>
        /\ (call.out.errorMessage # <<>>) <=> ~call.out.success

\* C25: a body of at most 10,000 bytes is stored unchanged; a longer one is
\* stored as its first 10,000 bytes followed by the marker.
C25_BodyCap ==
    HasBody =>
        LET body   == call.in.body
            stored == call.out.responseBody[1]
        IN  IF Len(body) <= BodyCap
            THEN stored = body
            ELSE /\ Len(stored) = BodyCap + Len(Marker)
                 /\ \A i \in 1..BodyCap : stored[i] = body[i]
                 /\ \A j \in 1..Len(Marker) : stored[BodyCap + j] = Marker[j]

\* A body of 10,001 bytes was capped.
C25_Witness ==
    /\ HasBody
    /\ Len(call.in.body) = BodyCap + 1
    /\ Len(call.out.responseBody[1]) = BodyCap + Len(Marker)

\* C26 as stated: a stored body has at most 10,000 bytes and ends with the
\* marker exactly when the original body was truncated.
C26_BodyAtMostCap ==
    HasBody =>
        /\ Len(call.out.responseBody[1]) <= BodyCap
        /\ EndsWithMarker(call.out.responseBody[1]) <=>
              Len(call.in.body) > BodyCap

\* C26 amended: a stored body has at most 10,000 bytes plus the marker; it is
\* longer than 10,000 bytes exactly when the original body was truncated, and
\* then it ends with the marker.
C26_BodyAtMostCapPlusMarker ==
    HasBody =>
        /\ Len(call.out.responseBody[1]) <= BodyCap + Len(Marker)
        /\ Len(call.out.responseBody[1]) > BodyCap <=>
              Len(call.in.body) > BodyCap
        /\ Len(call.in.body) > BodyCap =>
              EndsWithMarker(call.out.responseBody[1])

\* A body that was not truncated is stored ending with the marker's bytes,
\* because the endpoint sent them.
C26_Witness ==
    /\ HasBody
    /\ Len(call.in.body) <= BodyCap
    /\ Len(call.in.body) >= BodyCap - MaxExtra
    /\ EndsWithMarker(call.out.responseBody[1])

\* C27: a create request stores a row only when its one-off instant is
\* strictly in the future or its cron expression parses as five-field cron;
\* any other request leaves the store as it was.
C27_CreateValidated ==
    [][\A t \in TaskIds :
          (~Exists(t) /\ tasks'[t] # NoTask) =>
              IF tasks'[t].triggerType = TriggerTypeOneOff
              THEN tasks'[t].triggerTime > now
              ELSE ParsesFiveField(tasks'[t].cronExpr)]_vars

\* C28: Delete sets the status of an existing task to cancelled, returns no
\* error when the task is already cancelled, and returns an error and
\* changes nothing when no task has the identity.
C28_MarkCancelled ==
    (call.pc = "repo" /\ call.op = "Delete") =>
        IF call.before # NoTask
        THEN /\ ~call.err
             /\ tasks[call.id].status = TaskStatusCancelled
        ELSE /\ call.err
             /\ ~Exists(call.id)

C31_LimitClamped ==
    call.pc \in {"tasks", "results"} =>
        /\ call.effLimit \in 1..maxLimit
        /\ (call.limit.kind = "int" /\ call.limit.value \in 1..maxLimit) =>
              call.effLimit = call.limit.value
        /\ (call.limit.kind = "absent"
              \/ (call.limit.kind = "int" /\ call.limit.value = 0)) =>
              call.effLimit = defaultLimit
        /\ (call.limit.kind = "int" /\ call.limit.value > maxLimit) =>
              call.effLimit = maxLimit

\* The recorders whose RecordTaskExecution has returned.
Recorded == {i \in Recorders : call.rec[i].pc = "done"}

\* C32: whenever no RecordTaskExecution is in progress, total_tasks_executed
\* equals successful_tasks + failed_tasks and equals the number of firings
\* that have recorded (one per firing, however many attempts it made), and
\* every map GetMetrics returned has total = successful + failed.
C32_MetricsSerialized ==
    call.pc = "metrics" =>
        /\ call.snapshot.total = call.snapshot.ok + call.snapshot.failed
        /\ call.mu.writer = 0 =>
              /\ call.total = call.ok + call.failed
              /\ call.total = Cardinality(Recorded)
              /\ call.ok = Cardinality({i \in Recorded : call.rec[i].success})

\* Every firing has recorded, one of them after retries, and GetMetrics has
\* returned the full count.
C32_Witness ==
    /\ call.pc = "metrics"
    /\ Recorded = Recorders
    /\ \E i \in Recorders : call.rec[i].attempts > 1
    /\ call.snapshot.total = NumRecorders

\* C33: in every reachable state the next_run stored for a scheduled cron
\* task is present, strictly later than the clock and equal to the cron
\* evaluator's next instant for its expression.
C33_CronNextRunFuture ==
    \A t \in TaskIds :
        (/\ Exists(t)
         /\ tasks[t].triggerType = TriggerTypeCron
         /\ tasks[t].status = TaskStatusScheduled)
        => /\ tasks[t].nextRun # NoTime
           /\ tasks[t].nextRun > now
           /\ tasks[t].nextRun = CronNext(tasks[t].cronExpr, now)

\* The handles of the timers that are still pending.
PendingHandles == {k.id : k \in timers}

\* C34: while the executeTask of a fired one-off timer is past its start
\* (the executor has been called), the scheduler's map holds no fired handle
\* for the task: its entry is absent or belongs to a timer still pending.
C34_HandleGoneBeforeExecute ==
    \A i \in 1..Len(firings) :
        (firings[i].origin = "timer"
            /\ firings[i].pc \in {"exec", "save", "status"})
        => oneOffTasks[firings[i].task.id] \in {0} \cup PendingHandles

\* C35: a thread that holds s.mu is never inside the executor or inside a
\* repository call (executeTask is made of those two).
C35_NoIOUnderLock ==
    (call.pc = "mu" /\ call.mu # 0)
    => call.th[call.mu].pc \notin ExecutorPcs \cup RepositoryPcs

\* One thread holds s.mu in ScheduleTask while the goroutine it dispatched
\* is inside the executor and a timer callback is inside a repository call.
C35_Witness ==
    /\ call.pc = "mu"
    /\ call.mu # 0
    /\ call.th[call.mu].kind \in {"schedule-due", "schedule-future"}
    /\ \E i \in 1..Len(call.th) :
          call.th[i].kind = "worker" /\ call.th[i].pc \in ExecutorPcs
    /\ \E i \in 1..Len(call.th) :
          call.th[i].kind = "timer" /\ call.th[i].pc \in RepositoryPcs

\* C36: every pending one-off timer is the one the scheduler's map holds
\* for its task, so UnscheduleTask can stop it.
C36_PendingReachable ==
    \A k \in timers : oneOffTasks[k.task.id] = k.id

\* C37: every plain Execute call sends its request with the default client,
\* and whenever no ExecuteWithTimeout call is in progress the executor's
\* client is the default client.
C37_TimeoutDoesNotLeak ==
    call.pc = "client" =>
        /\ \A i \in 1..NumCallers :
              (call.th[i].kind = "plain" /\ call.th[i].pc = "done")
              => call.th[i].used = DefaultClient
        /\ (\A i \in 1..NumCallers :
              call.th[i].kind = "timeout"
              => call.th[i].pc \in {"save", "done"})
           => call.client = DefaultClient

\* C38: the step in which a one-off firing writes the completed status
\* changes only the status of the task's row: every other field stays as
\* the store held it, whichever update wrote it during the firing.
C38_CompletionWritesStatusOnly ==
    [][\A i \in 1..Len(firings) :
          \A t \in {firings[i].task.id} :
              (/\ firings[i].pc = "status"
               /\ firings'[i].pc # "status"
               /\ Exists(t))
              => tasks'[t] = [tasks[t] EXCEPT !.status = TaskStatusCompleted]
      ]_vars

\* C39: every callback and goroutine created by an iteration of the loops
\* of loadExistingTasks and checkMissedTasks acts on the task of that
\* iteration.
C39_ActsOnOwnTask ==
    call.pc \in {"range", "body", "done"} =>
        \A j \in 1..Len(call.disp) :
            call.disp[j].seen # 0 => call.disp[j].seen = call.disp[j].cause

\* C40: when main went on with a nil task logger, a dispatch that has ended
\* has persisted its result row and, for a one-off task, has marked the
\* task completed.
C40_NilLoggerStillRecords ==
    (/\ call.pc \in {"up", "crashed"}
     /\ call.taskLogger = "nil"
     /\ call.f.pc \in {"done", "panic"})
    => /\ call.rows = 1
       /\ call.task.triggerType = TriggerTypeOneOff
             => call.task.status = TaskStatusCompleted
====
